---- MODULE Spec2Model ----
(***************************************************************************)
(* customer_support_ticket_flow: the SQLite query tool (the input schema's *)
(* validate_query_safety and SQLiteDatabaseTool._run) and the store file   *)
(* it reads.  Texts are sequences of one-character strings, so that        *)
(* strip(), upper(), startswith() and the `in` test are computed.          *)
(***************************************************************************)
EXTENDS Integers, Sequences, FiniteSets, TLC

VARIABLES
  query,     \* the query text of the current (or last) call
  verdict,   \* what validate_query_safety did with it
  fs,        \* the files under the project root: path -> database file
  gwOpen,    \* connections opened by _run that nothing has closed yet
  executed,  \* the text last handed to cursor.execute by _run
  result,    \* how the last tool call ended
  build,     \* the interpreter the tool runs on
  dbPath,    \* the database_path of the current (or last) tool call
  stage,     \* where the flow's run is: the last method that completed
  failedAt,  \* the method whose exception ended the run, if one did
  conn,      \* the flow's self.conn: none, open or closed
  flow,      \* the flow's State: database_structure, user_prompt, answer
  csv,       \* the source file data/customer_support_tickets.csv
  sink,      \* the file executive_summary.md
  agentInputs, \* the inputs of the crew's kickoff, when answer_user_prompt made it
  run        \* the number of the run

toolVars == <<query, verdict, fs, gwOpen, executed, result, build, dbPath>>
pipeVars == <<stage, failedAt, conn, flow, csv, sink, agentInputs, run>>
vars == <<toolVars, pipeVars>>

\* ------------------------------------------------------------------ bounds
MaxFrags == 3
MaxRows == 2
MaxOpen == 2

\* ------------------------------------------------------------ text helpers
Lower ==
  <<"a","b","c","d","e","f","g","h","i","j","k","l","m","n","o","p","q","r","s","t","u","v","w","x","y","z">>
Caps ==
  <<"A","B","C","D","E","F","G","H","I","J","K","L","M","N","O","P","Q","R","S","T","U","V","W","X","Y","Z">>
Digits ==
  <<"0","1","2","3","4","5","6","7","8","9">>
Whitespace == {" ", "\t", "\n", "\r"}

WordChars ==
  {Caps[i] : i \in DOMAIN Caps} \cup {Lower[i] : i \in DOMAIN Lower}
    \cup {Digits[i] : i \in DOMAIN Digits} \cup {"_"}

UpperChar(c) ==
  IF \E i \in DOMAIN Lower : Lower[i] = c
    THEN Caps[CHOOSE i \in DOMAIN Lower : Lower[i] = c]
    ELSE c

\* str.upper()
Upper(s) == [i \in 1..Len(s) |-> UpperChar(s[i])]

SetMin(S) == CHOOSE x \in S : \A y \in S : x <= y
SetMax(S) == CHOOSE x \in S : \A y \in S : y <= x

\* str.strip()
Strip(s) ==
  LET keep == {i \in 1..Len(s) : s[i] \notin Whitespace}
  IN IF keep = {} THEN <<>> ELSE SubSeq(s, SetMin(keep), SetMax(keep))

\* str.startswith(p)
StartsWith(s, p) == Len(s) >= Len(p) /\ SubSeq(s, 1, Len(p)) = p

\* the positions where p occurs in s
Occurrences(s, p) ==
  {i \in 1..(Len(s) - Len(p) + 1) : SubSeq(s, i, i + Len(p) - 1) = p}

\* p in s
Contains(s, p) == Occurrences(s, p) # {}

\* ------------------------------------------------------- the query validator
KwSELECT ==
  <<"S","E","L","E","C","T">>
KwDROP ==
  <<"D","R","O","P">>
KwDELETE ==
  <<"D","E","L","E","T","E">>
KwINSERT ==
  <<"I","N","S","E","R","T">>
KwUPDATE ==
  <<"U","P","D","A","T","E">>
KwALTER ==
  <<"A","L","T","E","R">>
KwCREATE ==
  <<"C","R","E","A","T","E">>
KwTRUNCATE ==
  <<"T","R","U","N","C","A","T","E">>

dangerous_keywords ==
  <<KwDROP, KwDELETE, KwINSERT, KwUPDATE, KwALTER, KwCREATE, KwTRUNCATE>>

Pending == [status |-> "pending", value |-> <<>>, keyword |-> <<>>]
Accepted(v) == [status |-> "ok", value |-> v, keyword |-> <<>>]
\* ValueError("Only SELECT queries are allowed for security reasons")
OnlySelectError == [status |-> "only_select", value |-> <<>>, keyword |-> <<>>]
\* ValueError(f"Query contains forbidden keyword: {keyword}")
ForbiddenError(k) == [status |-> "forbidden_keyword", value |-> <<>>, keyword |-> k]

\* the keywords of the list that occur in the text, by their place in the list
KeywordHits(text) ==
  {k \in DOMAIN dangerous_keywords : Contains(text, dangerous_keywords[k])}

\* the positions where p occurs in s as a whole word
WordOccurrences(s, p) ==
  {i \in Occurrences(s, p) :
     /\ (i = 1 \/ s[i - 1] \notin WordChars)
     /\ (i + Len(p) - 1 = Len(s) \/ s[i + Len(p)] \notin WordChars)}

\* validate_query_safety with the keyword loop ahead of the SELECT test
validate_keywords_first(v) ==
  LET query_upper == Upper(Strip(v))
      hits == KeywordHits(query_upper)
  IN IF hits # {} THEN ForbiddenError(dangerous_keywords[SetMin(hits)])
     ELSE IF ~StartsWith(query_upper, KwSELECT) THEN OnlySelectError
     ELSE Accepted(v)

\* validate_query_safety matching the keywords as whole words
validate_whole_word(v) ==
  LET query_upper == Upper(Strip(v))
      hits == {k \in DOMAIN dangerous_keywords :
                 WordOccurrences(query_upper, dangerous_keywords[k]) # {}}
  IN IF ~StartsWith(query_upper, KwSELECT) THEN OnlySelectError
     ELSE IF hits # {} THEN ForbiddenError(dangerous_keywords[SetMin(hits)])
     ELSE Accepted(v)

\* validate_query_safety looking for the keywords in the text as typed
validate_as_typed(v) ==
  LET query_upper == Upper(Strip(v))
      hits == KeywordHits(Strip(v))
  IN IF ~StartsWith(query_upper, KwSELECT) THEN OnlySelectError
     ELSE IF hits # {} THEN ForbiddenError(dangerous_keywords[SetMin(hits)])
     ELSE Accepted(v)

\* validate_query_safety returning the normalised text
validate_returns_normalised(v) ==
  LET query_upper == Upper(Strip(v))
      hits == KeywordHits(query_upper)
  IN IF ~StartsWith(query_upper, KwSELECT) THEN OnlySelectError
     ELSE IF hits # {} THEN ForbiddenError(dangerous_keywords[SetMin(hits)])
     ELSE Accepted(query_upper)

validate_query_safety(v) ==
  LET query_upper == Upper(Strip(v))
      hits == KeywordHits(query_upper)
  IN IF ~StartsWith(query_upper, KwSELECT) THEN OnlySelectError
     ELSE IF hits # {} THEN ForbiddenError(dangerous_keywords[SetMin(hits)])
     ELSE Accepted(v)

\* ------------------------------------------- what a query text means to SQLite
KwREPLACE ==
  <<"R","E","P","L","A","C","E">>

\* the keyword a statement starts with: its leading run of word characters
FirstWord(stmt) ==
  LET text == Upper(Strip(stmt))
      stops == {i \in 1..Len(text) : text[i] \notin WordChars}
  IN IF stops = {} THEN text ELSE SubSeq(text, 1, SetMin(stops) - 1)

\* the statements of a text: the pieces between its semicolons that are not blank
StatementStarts(text) == {1} \cup {i + 1 : i \in {j \in 1..Len(text) : text[j] = ";"}}
StatementAt(text, i) ==
  LET ends == {j \in i..Len(text) : text[j] = ";"}
  IN SubSeq(text, i, IF ends = {} THEN Len(text) ELSE SetMin(ends) - 1)
Statements(text) ==
  {s \in {StatementAt(text, i) : i \in StatementStarts(text)} : Strip(s) # <<>>}

\* the statements that write to the database
MutatingWords ==
  {KwDROP, KwDELETE, KwINSERT, KwUPDATE, KwALTER, KwCREATE, KwTRUNCATE, KwREPLACE}
IsMutating(stmt) == FirstWord(stmt) \in MutatingWords
ContainsMutatingStatement(text) == \E s \in Statements(text) : IsMutating(s)

\* ------------------------------------------------------------- the store
\* In the query texts below, t stands for the table customer_support_tickets.
DefaultPath == "data/customer_support_tickets.db"
OtherPath == "data/none.db"
DefaultPathText ==
  <<"d","a","t","a","/","c","u","s","t","o","m","e","r","_","s","u","p","p","o","r","t","_","t","i","c","k","e","t","s",".","d","b">>
OtherPathText ==
  <<"d","a","t","a","/","n","o","n","e",".","d","b">>
\* the characters of a path
PathText(path) == IF path = DefaultPath THEN DefaultPathText ELSE OtherPathText
ProjectRoot ==
  <<"/","a","p","p","/">>
Paths == {DefaultPath, OtherPath}

\* the one column of the table, and the texts a field may hold
ColumnNames == << <<"n","o","t","e">> >>
Values == { <<"a">>, <<"b">> }
NewRow == << <<"b">> >>

NoFile == [exists |-> FALSE, hasTable |-> FALSE, rows |-> <<>>]
EmptyDatabase == [exists |-> TRUE, hasTable |-> FALSE, rows |-> <<>>]
Database(rows) == [exists |-> TRUE, hasTable |-> TRUE, rows |-> rows]

\* every content the table may have: up to MaxRows rows
Tables == UNION {[1..n -> {<<v>> : v \in Values}] : n \in 0..MaxRows}

MsgNoTable ==
  <<"n","o"," ","s","u","c","h"," ","t","a","b","l","e",":"," ","t">>
MsgSyntax ==
  <<"s","y","n","t","a","x"," ","e","r","r","o","r">>
MsgOneStmt ==
  <<"Y","o","u"," ","c","a","n"," ","o","n","l","y"," ","e","x","e","c","u","t","e"," ","o","n","e"," ","s","t","a","t","e","m","e","n","t"," ","a","t"," ","a"," ","t","i","m","e",".">>

\* text follows the first statement: a second statement
HasTail(text) ==
  \E i \in StatementStarts(text) \ {1} : Strip(StatementAt(text, i)) # <<>>

\* sqlite3 before Python 3.12 raises sqlite3.Warning, which is no sqlite3.Error,
\* for a text of more than one statement; from 3.12 on, sqlite3.ProgrammingError
Builds == {"py311", "py312"}
OneStatementError(db, bld) ==
  [db |-> db, rows |-> <<>>, msg |-> MsgOneStmt,
   outcome |-> IF bld = "py311" THEN "other_error" ELSE "sqlite_error"]
SqliteError(db, msg) ==
  [db |-> db, rows |-> <<>>, msg |-> msg, outcome |-> "sqlite_error"]
Fetched(db, rows) == [db |-> db, rows |-> rows, msg |-> <<>>, outcome |-> "rows"]

\* cursor.execute(query); cursor.fetchall(), and the commit on leaving the with
\* block: the first statement is compiled, a second one is refused, and the
\* statement runs.  Defined on the statements of GatewayQueries.
execute(db, text, bld) ==
  LET word == FirstWord(StatementAt(text, 1))
  IN IF word \notin {KwSELECT, KwDROP, KwDELETE, KwREPLACE} THEN SqliteError(db, MsgSyntax)
     ELSE IF ~db.hasTable THEN SqliteError(db, MsgNoTable)
     ELSE IF HasTail(text) THEN OneStatementError(db, bld)
     ELSE IF word = KwSELECT THEN Fetched(db, db.rows)
     ELSE IF word = KwDROP THEN Fetched(EmptyDatabase, <<>>)
     ELSE IF word = KwDELETE THEN Fetched(Database(<<>>), <<>>)
     ELSE Fetched(Database(Append(db.rows, NewRow)), <<>>)

\* ------------------------------------------------------- the result report
TxtNotFound ==
  <<"E","r","r","o","r",":"," ","D","a","t","a","b","a","s","e"," ","f","i","l","e"," ","n","o","t"," ","f","o","u","n","d"," ","a","t"," ">>
TxtNoResults ==
  <<"Q","u","e","r","y"," ","e","x","e","c","u","t","e","d"," ","s","u","c","c","e","s","s","f","u","l","l","y"," ","b","u","t"," ","r","e","t","u","r","n","e","d"," ","n","o"," ","r","e","s","u","l","t","s",".">>
TxtRetrieved ==
  <<"Q","u","e","r","y"," ","e","x","e","c","u","t","e","d"," ","s","u","c","c","e","s","s","f","u","l","l","y","."," ","R","e","t","r","i","e","v","e","d"," ">>
TxtRowsEnd ==
  <<" ","r","o","w","(","s",")",".","\n","\n">>
TxtColumns ==
  <<"C","o","l","u","m","n","s",":"," ">>
TxtCommaSpace ==
  <<","," ">>
TxtTwoNewlines ==
  <<"\n","\n">>
TxtSample ==
  <<"S","a","m","p","l","e"," ","r","e","s","u","l","t","s"," ","(","s","h","o","w","i","n","g"," ","f","i","r","s","t"," ">>
TxtSampleEnd ==
  <<" ","r","o","w","s",")",":","\n">>
TxtRow ==
  <<"\n","R","o","w"," ">>
TxtAndMore ==
  <<"\n",".",".","."," ","a","n","d"," ">>
TxtMoreRows ==
  <<" ","m","o","r","e"," ","r","o","w","s",".">>
TxtSqliteError ==
  <<"S","Q","L","i","t","e"," ","e","r","r","o","r",":"," ">>
TxtUnexpected ==
  <<"U","n","e","x","p","e","c","t","e","d"," ","e","r","r","o","r"," ","e","x","e","c","u","t","i","n","g"," ","q","u","e","r","y",":"," ">>
TxtEllipsis ==
  <<".",".",".">>

MaxDisplayRows == 20
MaxValueLen == 100
KeptLen == 97

\* str(n) of a count
RECURSIVE Str(_)
Str(n) == IF n < 10 THEN <<Digits[n + 1]>> ELSE Str(n \div 10) \o <<Digits[(n % 10) + 1]>>

\* ", ".join(columns)
RECURSIVE Join(_)
Join(names) ==
  IF names = <<>> THEN <<>>
  ELSE IF Len(names) = 1 THEN names[1]
  ELSE names[1] \o TxtCommaSpace \o Join(Tail(names))

\* display_value cutting after MaxValueLen characters
display_value_late_cut(value) ==
  IF Len(value) > MaxValueLen THEN SubSeq(value, 1, MaxValueLen) \o TxtEllipsis ELSE value

display_value(value) ==
  IF Len(value) > MaxValueLen THEN SubSeq(value, 1, KeptLen) \o TxtEllipsis ELSE value

\* the "  key: value" lines of a row, from column k on
RECURSIVE FieldLines(_, _)
FieldLines(row, k) ==
  IF k > Len(row) THEN <<>>
  ELSE <<" ", " ">> \o ColumnNames[k] \o <<":", " ">> \o display_value(row[k]) \o <<"\n">>
         \o FieldLines(row, k + 1)

\* the blocks "Row i:" of rows i..last
RECURSIVE RowBlocks(_, _, _)
RowBlocks(results, i, last) ==
  IF i > last THEN <<>>
  ELSE TxtRow \o Str(i) \o <<":", "\n">> \o FieldLines(results[i], 1)
         \o RowBlocks(results, i + 1, last)

\* max_display_rows without the cap
max_display_all(results) == Len(results)

max_display_rows(results) ==
  IF Len(results) < MaxDisplayRows THEN Len(results) ELSE MaxDisplayRows

\* result_summary stating the number of rows shown
result_summary_shown_count(results) ==
  TxtRetrieved \o Str(max_display_rows(results)) \o TxtRowsEnd
    \o TxtColumns \o Join(ColumnNames) \o TxtTwoNewlines
    \o TxtSample \o Str(max_display_rows(results)) \o TxtSampleEnd
    \o RowBlocks(results, 1, max_display_rows(results))
    \o (IF Len(results) > max_display_rows(results)
          THEN TxtAndMore \o Str(Len(results) - max_display_rows(results)) \o TxtMoreRows
          ELSE <<>>)

result_summary(results) ==
  TxtRetrieved \o Str(Len(results)) \o TxtRowsEnd
    \o TxtColumns \o Join(ColumnNames) \o TxtTwoNewlines
    \o TxtSample \o Str(max_display_rows(results)) \o TxtSampleEnd
    \o RowBlocks(results, 1, max_display_rows(results))
    \o (IF Len(results) > max_display_rows(results)
          THEN TxtAndMore \o Str(Len(results) - max_display_rows(results)) \o TxtMoreRows
          ELSE <<>>)

\* the three error texts of _run
not_found_report(path) == TxtNotFound \o ProjectRoot \o PathText(path)
\* the store's error text returned as it is
sqlite_error_bare(msg) == msg

sqlite_error_report(msg) == TxtSqliteError \o msg
unexpected_error_report(msg) == TxtUnexpected \o msg

\* ----------------------------------------------------- SQLiteDatabaseTool._run
NotExecuted == [done |-> FALSE, text |-> <<>>]
NoResult == [kind |-> "none", ok |-> FALSE, text |-> <<>>]
Returned(ok, text) == [kind |-> "returned", ok |-> ok, text |-> text]
\* the ValueError of the field validator leaves SQLiteQueryInput(...)
Raised == [kind |-> "raised", ok |-> FALSE, text |-> <<>>]

\* the tool's call with a missing database file answered by creating the file
run_outcome_creating(files, text, path, bld) ==
  LET made == [files EXCEPT ![path] = IF files[path].exists THEN files[path] ELSE EmptyDatabase]
      ex == execute(made[path], text, bld)
  IN [report |->
        IF ex.outcome = "sqlite_error" THEN Returned(FALSE, sqlite_error_report(ex.msg))
        ELSE IF ex.outcome = "other_error"
          THEN Returned(FALSE, unexpected_error_report(ex.msg))
        ELSE IF ex.rows = <<>> THEN Returned(TRUE, TxtNoResults)
        ELSE Returned(TRUE, result_summary(ex.rows)),
      opened |-> TRUE,
      executed |-> [done |-> TRUE, text |-> text],
      files |-> [made EXCEPT ![path] = ex.db]]

\* what one call of _run does: the report, whether a connection was opened,
\* the text executed and the files afterwards
run_outcome(files, text, path, bld) ==
  IF ~files[path].exists
    THEN [report |-> Returned(FALSE, not_found_report(path)), opened |-> FALSE,
          executed |-> NotExecuted, files |-> files]
    ELSE LET ex == execute(files[path], text, bld)
         IN [report |->
               IF ex.outcome = "sqlite_error" THEN Returned(FALSE, sqlite_error_report(ex.msg))
               ELSE IF ex.outcome = "other_error"
                 THEN Returned(FALSE, unexpected_error_report(ex.msg))
               ELSE IF ex.rows = <<>> THEN Returned(TRUE, TxtNoResults)
               ELSE Returned(TRUE, result_summary(ex.rows)),
             opened |-> TRUE,
             executed |-> [done |-> TRUE, text |-> text],
             files |-> [files EXCEPT ![path] = ex.db]]

\* `with sqlite3.connect(...) as conn` commits or rolls back on leaving the
\* block and leaves the connection open: it is closed when the interpreter
\* reclaims the object, at the return (closedAtReturn) or later (Finalize)
connections_after(open, opened, closedAtReturn) ==
  IF opened /\ ~closedAtReturn THEN open + 1 ELSE open

QSelect ==
  <<"S","E","L","E","C","T"," ","*"," ","F","R","O","M"," ","t">>
QSelectLower ==
  <<" ","s","e","l","e","c","t"," ","*"," ","f","r","o","m"," ","t","\n">>
QDrop ==
  <<"D","R","O","P"," ","T","A","B","L","E"," ","t">>
QDelete ==
  <<"d","e","l","e","t","e"," ","f","r","o","m"," ","t">>
QReplace ==
  <<"R","E","P","L","A","C","E"," ","I","N","T","O"," ","t"," ","V","A","L","U","E","S","(","'","b","'",")">>
QMulti ==
  <<"S","E","L","E","C","T"," ","*"," ","F","R","O","M"," ","t",";"," ","R","E","P","L","A","C","E"," ","I","N","T","O"," ","t"," ","V","A","L","U","E","S","(","'","b","'",")">>
QBad ==
  <<"S","E","L","E","C"," ","*"," ","F","R","O","M"," ","t">>

\* the texts the tool is called with
GatewayQueries == {QSelect, QSelectLower, QDrop, QDelete, QReplace, QMulti, QBad}

\* ------------------------------------------------- the flow, as constructed
\* State(): the three fields are empty strings
NewState(prompt) == [database_structure |-> "", user_prompt |-> prompt, answer |-> ""]
NoInputs == [user_prompt |-> "", database_structure |-> "", database_path |-> "", made |-> FALSE]
\* the source file cannot be read or parsed
Unreadable == [readable |-> FALSE, rows |-> <<>>]
NoSink == [written |-> FALSE, text |-> ""]

\* CustomerSupportTicketFlow(): no connection, an empty State, nothing run yet
Constructed ==
  /\ stage = "Idle"
  /\ failedAt = "none"
  /\ conn = "none"
  /\ flow = NewState("")
  /\ agentInputs = NoInputs
  /\ run = 1

Init ==
  /\ query = <<>>
  /\ verdict = Pending
  /\ fs \in {f \in [Paths -> {NoFile, EmptyDatabase} \cup {Database(r) : r \in Tables}] :
               f[OtherPath] = NoFile}
  /\ gwOpen = 0
  /\ executed = NotExecuted
  /\ result = NoResult
  /\ build \in Builds
  /\ dbPath = DefaultPath
  /\ Constructed
  /\ csv = Unreadable
  /\ sink = NoSink

\* the effects of _run(text, path) on the store, the connections and the result
RunEffects(text, path) ==
  LET out == run_outcome(fs, text, path, build)
  IN /\ \/ Len(out.files[path].rows) <= MaxRows
        \/ Len(out.files[path].rows) <= Len(fs[path].rows)
     /\ fs' = out.files
     /\ executed' = out.executed
     /\ result' = out.report
     /\ \E closedAtReturn \in BOOLEAN :
          /\ gwOpen' = connections_after(gwOpen, out.opened, closedAtReturn)
          /\ gwOpen' <= MaxOpen

\* sqlite_database_tool._run(query, database_path), called as it stands
Run(text, path) ==
  /\ query' = text
  /\ dbPath' = path
  /\ verdict' = Pending
  /\ RunEffects(text, path)
  /\ UNCHANGED build
  /\ UNCHANGED pipeVars

\* the tool called through its args_schema: SQLiteQueryInput(query, database_path)
\* is built first, and _run gets its fields
ToolCall(text, path) ==
  LET v == validate_query_safety(text)
  IN /\ query' = text
     /\ dbPath' = path
     /\ verdict' = v
     /\ IF v.status = "ok"
          THEN RunEffects(v.value, path)
          ELSE /\ result' = Raised
               /\ executed' = NotExecuted
               /\ UNCHANGED <<fs, gwOpen>>
     /\ UNCHANGED build
     /\ UNCHANGED pipeVars

\* the interpreter reclaims a connection object that _run left open
Finalize ==
  /\ gwOpen > 0
  /\ gwOpen' = gwOpen - 1
  /\ UNCHANGED <<query, verdict, fs, executed, result, build, dbPath>>
  /\ UNCHANGED pipeVars

Next ==
  \/ \E text \in GatewayQueries, path \in Paths : Run(text, path)
  \/ \E text \in GatewayQueries, path \in Paths : ToolCall(text, path)
  \/ Finalize

Spec == Init /\ [][Next]_vars

\* ------------------------------------------------------------- the flow
MaxRuns == 2

\* kickoff(inputs={"user_prompt": ...}): the questions asked
Prompts == {"most recurrent unsolved issue?", "gender distribution?"}
\* result.raw: what the crew answers
Answers == {"answer one", "answer two"}
\* the sql of the table in sqlite_master, as df.to_sql declares it
Ddl == "CREATE TABLE \"customer_support_tickets\" (\"note\" TEXT)"
\* the contents the source file, and the store before the run, may have
SourceTables == {<<>>, << <<"a">> >>, << <<"b">>, <<"a">> >>}
Readable(rows) == [readable |-> TRUE, rows |-> rows]

\* df.to_sql(..., if_exists="append"): the rows are added to the table's
to_sql_append(db, df) == Database(IF db.hasTable THEN db.rows \o df ELSE df)

\* df.to_sql(self.table_name, self.conn, if_exists="replace", index=False)
to_sql(db, df) == Database(df)

\* the State after kickoff(inputs) has set user_prompt, before any method ran
KickedOff(prompt) ==
  /\ stage = "Idle"
  /\ failedAt = "none"
  /\ conn = "none"
  /\ flow = NewState(prompt)
  /\ agentInputs = NoInputs

PipeInit ==
  /\ query = <<>>
  /\ verdict = Pending
  /\ \E db \in {NoFile} \cup {Database(r) : r \in SourceTables} :
       fs = [p \in Paths |-> IF p = DefaultPath THEN db ELSE NoFile]
  /\ gwOpen = 0
  /\ executed = NotExecuted
  /\ result = NoResult
  /\ build \in Builds
  /\ dbPath = DefaultPath
  /\ \E prompt \in Prompts : KickedOff(prompt)
  /\ run = 1
  /\ csv \in {Unreadable} \cup {Readable(r) : r \in SourceTables}
  /\ sink = NoSink

\* an exception leaves the method: the run ends there
Fails(method) ==
  /\ stage' = "Failed"
  /\ failedAt' = method

\* @start() load_dataset: pd.read_csv raises on a file it cannot read or parse,
\* before connect; otherwise the connection is bound and the table replaced
load_dataset ==
  /\ stage = "Idle"
  /\ IF csv.readable
       THEN /\ conn' = "open"
            /\ fs' = [fs EXCEPT ![DefaultPath] = to_sql(@, csv.rows)]
            /\ stage' = "Loaded"
            /\ UNCHANGED failedAt
       ELSE /\ Fails("load_dataset")
            /\ UNCHANGED <<conn, fs>>
  /\ UNCHANGED <<query, verdict, gwOpen, executed, result, build, dbPath>>
  /\ UNCHANGED <<flow, csv, sink, agentInputs, run>>

\* inspect_database_structure going on with an empty descriptor when
\* sqlite_master has no such table
inspect_tolerant ==
  /\ stage = "Loaded"
  /\ flow' = [flow EXCEPT !.database_structure =
                 IF fs[DefaultPath].hasTable THEN Ddl ELSE ""]
  /\ stage' = "Inspected"
  /\ UNCHANGED toolVars
  /\ UNCHANGED <<failedAt, conn, csv, sink, agentInputs, run>>

\* inspect_database_structure storing the sql in the answer field
inspect_into_answer ==
  /\ stage = "Loaded"
  /\ IF fs[DefaultPath].hasTable
       THEN /\ flow' = [flow EXCEPT !.answer = Ddl]
            /\ stage' = "Inspected"
            /\ UNCHANGED failedAt
       ELSE /\ Fails("inspect_database_structure")
            /\ UNCHANGED flow
  /\ UNCHANGED toolVars
  /\ UNCHANGED <<conn, csv, sink, agentInputs, run>>

\* @listen(load_dataset) inspect_database_structure: fetchone() is None when
\* sqlite_master has no such table, and None[0] raises
inspect_database_structure ==
  /\ stage = "Loaded"
  /\ IF fs[DefaultPath].hasTable
       THEN /\ flow' = [flow EXCEPT !.database_structure = Ddl]
            /\ stage' = "Inspected"
            /\ UNCHANGED failedAt
       ELSE /\ Fails("inspect_database_structure")
            /\ UNCHANGED flow
  /\ UNCHANGED toolVars
  /\ UNCHANGED <<conn, csv, sink, agentInputs, run>>

\* @listen(inspect_database_structure) answer_user_prompt, up to the crew's
\* kickoff: the inputs are read from the State
answer_user_prompt_kickoff ==
  /\ stage = "Inspected"
  /\ stage' = "Delegating"
  /\ agentInputs' = [user_prompt |-> flow.user_prompt,
                     database_structure |-> flow.database_structure,
                     database_path |-> DefaultPath,
                     made |-> TRUE]
  /\ UNCHANGED toolVars
  /\ UNCHANGED <<failedAt, conn, flow, csv, sink, run>>

\* the crew's agent uses the tool, any number of times, on the path it was given
AgentQueries == {QSelect, QDrop, QMulti}
AgentToolCall(text) ==
  /\ stage = "Delegating"
  /\ ToolCall(text, agentInputs.database_path)

\* answer_user_prompt, from the crew's answer on: the answer is stored and
\* written to executive_summary.md
answer_user_prompt_result(raw) ==
  /\ stage = "Delegating"
  /\ flow' = [flow EXCEPT !.answer = raw]
  /\ sink' = [written |-> TRUE, text |-> raw]
  /\ stage' = "Answered"
  /\ UNCHANGED toolVars
  /\ UNCHANGED <<failedAt, conn, csv, agentInputs, run>>

\* answer_user_prompt ended by an exception: of the crew's kickoff, or of
\* open() after the answer was stored
answer_user_prompt_raises ==
  /\ stage = "Delegating"
  /\ Fails("answer_user_prompt")
  /\ \/ UNCHANGED flow
     \/ \E raw \in Answers : flow' = [flow EXCEPT !.answer = raw]
  /\ UNCHANGED toolVars
  /\ UNCHANGED <<conn, csv, sink, agentInputs, run>>

\* close_connection run after any method that completed
close_connection_early ==
  /\ stage \in {"Loaded", "Inspected", "Answered"}
  /\ conn' = "closed"
  /\ stage' = "Closed"
  /\ UNCHANGED toolVars
  /\ UNCHANGED <<failedAt, flow, csv, sink, agentInputs, run>>

\* @listen(answer_user_prompt) close_connection
close_connection ==
  /\ stage = "Answered"
  /\ conn' = "closed"
  /\ stage' = "Closed"
  /\ UNCHANGED toolVars
  /\ UNCHANGED <<failedAt, flow, csv, sink, agentInputs, run>>

\* kickoff() again, in a new process: a new flow on the files the last run left
NewRun ==
  /\ stage \in {"Closed", "Failed"}
  /\ run < MaxRuns
  /\ run' = run + 1
  /\ stage' = "Idle"
  /\ failedAt' = "none"
  /\ conn' = "none"
  /\ \E prompt \in Prompts : flow' = NewState(prompt)
  /\ agentInputs' = NoInputs
  /\ gwOpen' = 0
  /\ UNCHANGED <<query, verdict, fs, executed, result, build, dbPath, csv, sink>>

\* another program using sqlite_database_tool drops the table between
\* load_dataset and inspect_database_structure; its connection is its own
OtherCaller ==
  /\ stage = "Loaded"
  /\ fs' = run_outcome(fs, QDrop, DefaultPath, build).files
  /\ UNCHANGED <<query, verdict, gwOpen, executed, result, build, dbPath>>
  /\ UNCHANGED pipeVars

PipeNext ==
  \/ load_dataset
  \/ inspect_database_structure
  \/ answer_user_prompt_kickoff
  \/ \E text \in AgentQueries : AgentToolCall(text)
  \/ \E raw \in Answers : answer_user_prompt_result(raw)
  \/ answer_user_prompt_raises
  \/ close_connection
  \/ NewRun
  \/ OtherCaller
  \/ Finalize

PipeSpec == PipeInit /\ [][PipeNext]_vars

\* ------------------------------------------------- the validator on its own
Fragments ==
  { <<"S","E","L","E","C","T">>,
    <<"s","e","l","e","c","t">>,
    <<" ">>,
    <<"x">>,
    <<";">>,
    <<"D","R","O","P">>,
    <<"d","e","l","e","t","e">>,
    <<"I","n","s","e","r","t">>,
    <<"U","P","D","A","T","E">>,
    <<"a","l","t","e","r">>,
    <<"C","R","E","A","T","E">>,
    <<"t","r","u","n","c","a","t","e">>,
    <<"R","E","P","L","A","C","E">>,
    <<"_">> }

RECURSIVE Concat(_)
Concat(parts) == IF parts = <<>> THEN <<>> ELSE Head(parts) \o Concat(Tail(parts))

\* the texts the validator is tried on: up to MaxFrags fragments, joined
Queries ==
  {Concat(parts) : parts \in UNION {[1..n -> Fragments] : n \in 0..MaxFrags}}

ValInit ==
  /\ query \in Queries
  /\ verdict = Pending
  /\ fs = [p \in Paths |-> NoFile]
  /\ gwOpen = 0
  /\ executed = NotExecuted
  /\ result = NoResult
  /\ build = "py312"
  /\ dbPath = DefaultPath
  /\ Constructed
  /\ csv = Unreadable
  /\ sink = NoSink

\* SQLiteQueryInput(query=...) runs the field validator on the text
Validate ==
  /\ verdict = Pending
  /\ verdict' = validate_query_safety(query)
  /\ UNCHANGED <<query, fs, gwOpen, executed, result, build, dbPath>>
  /\ UNCHANGED pipeVars

ValNext == Validate

ValSpec == ValInit /\ [][ValNext]_vars

\* ------------------------------------------------ properties of the validator
Normalised == Upper(Strip(query))
Validated == verdict # Pending

\* C5: the validator has no false negatives: no text holding a mutating
\* statement, alone or after a semicolon that follows a SELECT, is accepted.
C5_NoFalseNegative ==
  verdict.status = "ok" => ~ContainsMutatingStatement(query)

\* C6: a text that, trimmed and upper-cased, does not begin with SELECT is
\* rejected with the only-SELECT error, also when it holds a forbidden keyword.
C6_NotSelectIsNotReadOnly ==
  (Validated /\ ~StartsWith(Normalised, KwSELECT)) => verdict = OnlySelectError

C6_Witness ==
  /\ verdict = OnlySelectError
  /\ \E k \in DOMAIN dangerous_keywords : Contains(Normalised, dangerous_keywords[k])

\* C7: a text beginning with SELECT whose upper-cased form holds one of the
\* seven keywords anywhere, as a substring, is rejected with the
\* forbidden-keyword error.
C7_SubstringIsForbidden ==
  (/\ Validated
   /\ StartsWith(Normalised, KwSELECT)
   /\ \E k \in DOMAIN dangerous_keywords : Contains(Normalised, dangerous_keywords[k]))
  => verdict.status = "forbidden_keyword"

C7_Witness ==
  /\ verdict.status = "forbidden_keyword"
  /\ \A k \in DOMAIN dangerous_keywords :
       WordOccurrences(Normalised, dangerous_keywords[k]) = {}

\* C8 as stated: a text beginning with SELECT is rejected with the
\* forbidden-keyword error if and only if a keyword occurs in it as a whole word.
C8_WholeWordOnly ==
  (Validated /\ StartsWith(Normalised, KwSELECT))
  => (verdict.status = "forbidden_keyword"
        <=> \E k \in DOMAIN dangerous_keywords :
              WordOccurrences(Normalised, dangerous_keywords[k]) # {})

\* C8 as amended: a text beginning with SELECT is rejected with the
\* forbidden-keyword error if and only if a keyword occurs in its upper-cased
\* form as a substring, and the keyword named is the first of the list that does.
C8_SubstringExactly ==
  (Validated /\ StartsWith(Normalised, KwSELECT))
  => /\ verdict.status = "forbidden_keyword"
          <=> \E k \in DOMAIN dangerous_keywords :
                Contains(Normalised, dangerous_keywords[k])
     /\ verdict.status = "forbidden_keyword"
          => \E k \in DOMAIN dangerous_keywords :
               /\ verdict.keyword = dangerous_keywords[k]
               /\ Contains(Normalised, verdict.keyword)
               /\ \A j \in 1..(k - 1) : ~Contains(Normalised, dangerous_keywords[j])

C8_Witness ==
  /\ verdict = ForbiddenError(KwDROP)
  /\ Contains(Normalised, KwTRUNCATE)
  /\ SetMin(Occurrences(Normalised, KwTRUNCATE)) < SetMin(Occurrences(Normalised, KwDROP))

\* C9: an accepted text is returned as it was given: its case and the
\* whitespace around it are kept.
C9_AcceptedUnchanged ==
  verdict.status = "ok" => verdict.value = query

C9_Witness ==
  /\ verdict.status = "ok"
  /\ verdict.value = query
  /\ Strip(query) # query
  /\ Upper(query) # query

\* -------------------------------------------------- properties of the gateway
\* C1: a text that the validator rejects is never executed against the store,
\* whatever the caller validated beforehand.
C1_RejectedNeverExecuted ==
  executed.done => validate_query_safety(executed.text).status = "ok"

\* C2: no call of the tool raises: also a validation failure ends in a
\* returned text report.
C2_NeverRaises ==
  result.kind # "raised"

\* C3: after any sequence of calls, no connection the gateway opened is open.
C3_NoConnectionLeftOpen ==
  gwOpen = 0

\* C4: the contents of the store after a call are its contents before it.
C4_StoreUnchanged ==
  [][fs' = fs]_vars

PfxError ==
  <<"E","r","r","o","r",":"," ">>
PfxSqlite ==
  <<"S","Q","L","i","t","e"," ","e","r","r","o","r",":"," ">>
PfxUnexpected ==
  <<"U","n","e","x","p","e","c","t","e","d"," ","e","r","r","o","r",":"," ">>
PfxUnexpectedQuery ==
  <<"U","n","e","x","p","e","c","t","e","d"," ","e","r","r","o","r"," ","e","x","e","c","u","t","i","n","g"," ","q","u","e","r","y",":"," ">>

\* C10 as stated: every error report begins with "Error: ", "SQLite error: " or
\* "Unexpected error: ", and no success report does.
C10_PrefixesAsStated ==
  result.kind = "returned"
  => (~result.ok <=> \E pfx \in {PfxError, PfxSqlite, PfxUnexpected} :
                        StartsWith(result.text, pfx))

\* C10 as amended: every error report begins with "Error: ", "SQLite error: "
\* or "Unexpected error executing query: ", and no success report does.
C10_Prefixes ==
  result.kind = "returned"
  => (~result.ok <=> \E pfx \in {PfxError, PfxSqlite, PfxUnexpectedQuery} :
                        StartsWith(result.text, pfx))

C10_Witness ==
  /\ result.kind = "returned"
  /\ ~result.ok
  /\ executed.done
  /\ StartsWith(result.text, PfxUnexpectedQuery)

\* C11: a call of _run whose database file does not exist returns the text
\* "Error: Database file not found ...", opens no connection, executes nothing
\* and creates no file; a call whose file exists, also after such a report,
\* goes on to execute its query.
C11_MissingStoreReported ==
  [][gwOpen' >= gwOpen /\ verdict'.status \in {"pending", "ok"}
       => IF fs[dbPath'].exists
            THEN executed'.done
            ELSE /\ result'.kind = "returned"
                 /\ ~result'.ok
                 /\ StartsWith(result'.text, TxtNotFound)
                 /\ ~executed'.done
                 /\ gwOpen' = gwOpen
                 /\ fs' = fs]_vars

C11_Witness ==
  /\ verdict = Pending
  /\ ~fs[dbPath].exists
  /\ fs[DefaultPath].exists
  /\ StartsWith(result.text, TxtNotFound)
  /\ ~executed.done

\* ------------------------------------------------ the report of a SELECT
\* the tables the report is built from: many rows of short texts, or few rows
\* of long texts
MaxExtraRows == 2
MaxExtraLen == 2
ShortLen == 2
FewRows == 2

\* a field text of len characters, different from row to row
SampleValue(i, len) == [k \in 1..len |-> Digits[((i + k) % 10) + 1]]
SampleTable(n, len) == [i \in 1..n |-> <<SampleValue(i, len)>>]
SampleTables ==
  {SampleTable(n, len) : n \in 0..(MaxDisplayRows + MaxExtraRows), len \in 0..ShortLen}
    \cup {SampleTable(n, len) : n \in 0..FewRows, len \in 0..(MaxValueLen + MaxExtraLen)}

FmtInit ==
  /\ query = <<>>
  /\ verdict = Pending
  /\ \E rows \in SampleTables :
       fs = [p \in Paths |-> IF p = DefaultPath THEN Database(rows) ELSE NoFile]
  /\ gwOpen = 0
  /\ executed = NotExecuted
  /\ result = NoResult
  /\ build = "py312"
  /\ dbPath = DefaultPath
  /\ Constructed
  /\ csv = Unreadable
  /\ sink = NoSink

\* one call: _run("SELECT * FROM t") on the table
FmtRun ==
  /\ result = NoResult
  /\ Run(QSelect, DefaultPath)

FmtNext == FmtRun

FmtSpec == FmtInit /\ [][FmtNext]_vars

\* ------------------------------------------------- properties of the report
Reported == result.kind = "returned" /\ executed.done
Fetched_rows == fs[DefaultPath].rows
Report == result.text
\* the text p stands in s at position i
At(s, i, p) == i + Len(p) - 1 <= Len(s) /\ SubSeq(s, i, i + Len(p) - 1) = p
\* the places of the row blocks, and the i-th of them
BlockMarks == Occurrences(Report, TxtRow)
Mark(i) == CHOOSE p \in BlockMarks : Cardinality({q \in BlockMarks : q < p}) = i - 1
\* "\nRow i:\n  note: "
BlockHead(i) ==
  TxtRow \o Str(i) \o <<":", "\n">> \o <<" ", " ">> \o ColumnNames[1] \o <<":", " ">>
RowsShown == IF Len(Fetched_rows) < 20 THEN Len(Fetched_rows) ELSE 20
Trailer == TxtAndMore \o Str(Len(Fetched_rows) - 20) \o TxtMoreRows

\* C12: a query returning n >= 1 rows gives min(n, 20) row blocks, numbered
\* 1, 2, ... in result order, and the trailing line "... and n - 20 more rows."
\* if and only if n > 20.
C12_SamplingCap ==
  (Reported /\ Len(Fetched_rows) >= 1)
  => /\ Cardinality(BlockMarks) = RowsShown
     /\ \A i \in 1..RowsShown :
          LET value == Fetched_rows[i][1]
              start == SubSeq(value, 1, IF Len(value) < 97 THEN Len(value) ELSE 97)
          IN At(Report, Mark(i), BlockHead(i) \o start)
     /\ Len(Fetched_rows) > 20 <=> Contains(Report, TxtAndMore)
     /\ Len(Fetched_rows) > 20
          => At(Report, Len(Report) - Len(Trailer) + 1, Trailer)

C12_Witness ==
  /\ Reported
  /\ Len(Fetched_rows) > 20
  /\ Cardinality(BlockMarks) = 20
  /\ Contains(Report, TxtAndMore)

\* the end of block i: the next block, the trailing line or the end of the text
BlockEnd(i) ==
  IF i < RowsShown THEN Mark(i + 1)
  ELSE IF Len(Fetched_rows) > 20 THEN Len(Report) - Len(Trailer) + 1
  ELSE Len(Report) + 1

\* C13: a field text of more than 100 characters is shown as its first 97
\* characters and "..." (100 characters); a text of 100 or fewer is shown whole.
C13_Truncation ==
  (Reported /\ Len(Fetched_rows) >= 1)
  => \A i \in 1..RowsShown :
       LET value == Fetched_rows[i][1]
           shown == IF Len(value) > 100
                      THEN SubSeq(value, 1, 97) \o <<".", ".", ".">>
                      ELSE value
           block == BlockHead(i) \o shown \o <<"\n">>
       IN /\ Len(shown) <= 100
          /\ At(Report, Mark(i), block)
          /\ Mark(i) + Len(block) = BlockEnd(i)

C13_Witness ==
  /\ Reported
  /\ \E i \in 1..Len(Fetched_rows) : Len(Fetched_rows[i][1]) > 100
  /\ Contains(Report, TxtEllipsis)

TxtRetrievedWord ==
  <<"R","e","t","r","i","e","v","e","d"," ">>
TxtRowsWord ==
  <<" ","r","o","w","(","s",")">>

\* C14: a query yielding no rows gives the no-results report, with no row
\* count, column list or row block; one yielding n >= 1 rows gives a report
\* stating "Retrieved n row(s)" with n the number of rows fetched, so one row
\* gives "Retrieved 1 row(s)" and one row block.
C14_RowCount ==
  Reported
  => IF Len(Fetched_rows) = 0
       THEN /\ result.ok
            /\ Report = TxtNoResults
            /\ ~Contains(Report, TxtRetrievedWord)
            /\ ~Contains(Report, TxtColumns)
            /\ BlockMarks = {}
       ELSE /\ result.ok
            /\ Contains(Report, TxtRetrievedWord \o Str(Len(Fetched_rows)) \o TxtRowsWord)
            /\ Len(Fetched_rows) = 1 => Cardinality(BlockMarks) = 1

C14_Witness ==
  /\ Reported
  /\ Len(Fetched_rows) > 20
  /\ Contains(Report, TxtRetrievedWord \o Str(Len(Fetched_rows)) \o TxtRowsWord)

\* --------------------------------------------------- properties of the flow
SameRun == run' = run
Load == "load_dataset"
Inspect == "inspect_database_structure"

\* C15: in a run the methods execute in the order load_dataset,
\* inspect_database_structure, answer_user_prompt, close_connection (Idle,
\* Loaded, Inspected, Answered, Closed): none is skipped or repeated, and
\* nothing follows Closed.
C15_StageOrder ==
  [][(SameRun /\ stage' # stage)
       => \/ <<stage, stage'>> \in
               { <<"Idle", "Loaded">>, <<"Loaded", "Inspected">>,
                 <<"Inspected", "Delegating">>, <<"Delegating", "Answered">>,
                 <<"Answered", "Closed">> }
          \/ stage \in {"Idle", "Loaded", "Delegating"} /\ stage' = "Failed"]_vars

C15_Witness ==
  /\ stage = "Closed"
  /\ conn = "closed"
  /\ sink.written
  /\ flow.database_structure = Ddl
  /\ flow.answer \in Answers

\* C16: a failure of load_dataset (a source file that cannot be read) ends the
\* run before Inspected, and a missing table ends it in
\* inspect_database_structure: the crew is not kicked off, no answer is
\* stored, the sink is not written, and nothing runs after the failure.
C16_FatalStops ==
  /\ [](stage = "Failed" /\ failedAt \in {Load, Inspect}
          => /\ flow.answer = ""
             /\ ~agentInputs.made
             /\ failedAt = Load => flow.database_structure = "" /\ conn = "none")
  /\ [][SameRun /\ stage' # stage /\ stage = "Idle" /\ ~csv.readable
          => stage' = "Failed" /\ failedAt' = Load /\ sink' = sink]_vars
  /\ [][SameRun /\ stage' # stage /\ stage = "Loaded" /\ ~fs[DefaultPath].hasTable
          => stage' = "Failed" /\ failedAt' = Inspect /\ sink' = sink]_vars
  /\ [][SameRun /\ stage = "Failed"
          => stage' = "Failed" /\ UNCHANGED <<flow, sink, agentInputs, conn>>]_vars

C16_Witness ==
  /\ stage = "Failed"
  /\ failedAt = Inspect
  /\ ~fs[DefaultPath].hasTable
  /\ ~agentInputs.made
  /\ flow.answer = ""

\* C17: in every run in which load_dataset bound a connection, the connection
\* is closed when the run has ended, also when it ended by a failure.
C17_ConnectionReleased ==
  (stage \in {"Closed", "Failed"} /\ conn # "none") => conn = "closed"

\* C18: load_dataset replaces the table: after it the table holds the rows of
\* the source file, whatever it held before, so running it again on the same
\* file changes nothing.
C18_LoadReplaces ==
  [][stage = "Idle" /\ stage' = "Loaded"
       => /\ fs'[DefaultPath] = Database(csv.rows)
          /\ to_sql(fs'[DefaultPath], csv.rows) = fs'[DefaultPath]]_vars

C18_Witness ==
  /\ run = 2
  /\ stage = "Loaded"
  /\ csv.rows # <<>>
  /\ fs[DefaultPath] = Database(csv.rows)

\* C19: the flow has at most one connection open, and with the tool's at most
\* one, at most two connections to the store are open.
C19_ConnectionCount ==
  LET own == IF conn = "open" THEN 1 ELSE 0
  IN own <= 1 /\ gwOpen <= 1 /\ own + gwOpen <= 2

\* C20: database_structure is written once, by inspect_database_structure, and
\* not changed after; answer_user_prompt writes answer only; load_dataset and
\* close_connection write no field; user_prompt is never written; and the
\* crew is given the database_structure that was stored.
C20_FlowStateFrame ==
  [][SameRun
       => /\ flow'.user_prompt = flow.user_prompt
          /\ flow'.database_structure # flow.database_structure
               => /\ stage = "Loaded" /\ stage' = "Inspected"
                  /\ flow.database_structure = ""
                  /\ flow'.answer = flow.answer
          /\ flow'.answer # flow.answer => stage = "Delegating"
          /\ stage \in {"Idle", "Answered"} => flow' = flow
          /\ stage = "Loaded" /\ stage' = "Inspected" => flow'.database_structure = Ddl
          /\ stage = "Inspected" /\ stage' = "Delegating"
               => /\ flow' = flow
                  /\ agentInputs'.database_structure = flow.database_structure
                  /\ agentInputs'.database_structure = Ddl
                  /\ agentInputs'.user_prompt = flow.user_prompt]_vars

C20_Witness ==
  /\ stage = "Answered"
  /\ flow.database_structure = Ddl
  /\ agentInputs.database_structure = Ddl
  /\ flow.answer \in Answers
  /\ flow.user_prompt \in Prompts

====
